---- MODULE Spec2Model ----
(***************************************************************************)
(* lyricSync: the LRC codec (parseLrc / formatLrc), the transcription      *)
(* client (transcribeAudio: one sequential attempt loop with backoff on    *)
(* HTTP 429) and the App component that drives it (handleFileSelect,       *)
(* handleAnalyze, resetApp), modelled from src/App.jsx.                    *)
(*                                                                         *)
(* Texts are sequences of one-character strings.  An optional value        *)
(* (null in the source) is None == <<>> or Some(x) == <<x>>.               *)
(***************************************************************************)
EXTENDS Integers, Sequences, FiniteSets, TLC

VARIABLES
    tx,            \* SpecClient: the record of one transcribeAudio call
    log,           \* SpecClient: what the endpoint answered, one entry per finished attempt
    waits,         \* SpecClient: the backoff waits the call has made, in order
    appState,      \* App: useState(AppState.IDLE)
    transcript,    \* App: useState(null)
    audioUrl,      \* App: useState(null)
    currentFile,   \* App: useState(null)
    errorMessage,  \* App: useState(null)
    calls,         \* App: the handleAnalyze invocations so far, in order
    lrc            \* SpecLrc: a text and what parseLrc and formatLrc have made of it

vars ==
    <<tx, log, waits, appState, transcript, audioUrl, currentFile, errorMessage, calls, lrc>>
clientVars == <<tx, log, waits>>
lrcVars == <<lrc>>
appVars == <<appState, transcript, audioUrl, currentFile, errorMessage, calls>>

None == <<>>
Some(x) == <<x>>

(***************************************************************************)
(* Bounds of the model.                                                    *)
(***************************************************************************)
MaxRetriesBound == 5   \* SpecClient draws maxRetries from 0..MaxRetriesBound
MaxCalls == 2          \* Spec: handleAnalyze invocations per run
MaxBody == 3           \* SpecClean: length of the text between the fence markers
MaxLines == 2          \* SpecLrc: lines of the text given to parseLrc
MaxLiveCalls == 1      \* SpecLive: handleAnalyze invocations per run

(***************************************************************************)
(* Characters and whitespace (String.prototype.trim and the regex class    *)
(* \s agree on what whitespace is).                                        *)
(***************************************************************************)
SP == " "
NL == "\n"
CR == "\r"
BT == "bt"   \* the backtick character

IsWs(ch) == ch \in {SP, NL, CR}

\* The characters the regex dot does not match.
IsLineTerminator(ch) == ch \in {NL, CR}

DigitChars == <<"0", "1", "2", "3", "4", "5", "6", "7", "8", "9">>
IsDigit(ch) == \E d \in 1..Len(DigitChars) : DigitChars[d] = ch
DigitVal(ch) == (CHOOSE d \in 1..Len(DigitChars) : DigitChars[d] = ch) - 1

\* parseInt(s, 10) of a run of digits.
RECURSIVE ParseInt(_)
ParseInt(s) ==
    IF s = <<>> THEN 0 ELSE 10 * ParseInt(SubSeq(s, 1, Len(s) - 1)) + DigitVal(s[Len(s)])

StartsAt(s, p, pat) ==
    /\ p + Len(pat) - 1 <= Len(s)
    /\ \A j \in 1..Len(pat) : s[p + j - 1] = pat[j]

\* The first position >= p of s that holds no whitespace (Len(s) + 1 when none).
RECURSIVE SkipWs(_, _)
SkipWs(s, p) == IF p <= Len(s) /\ IsWs(s[p]) THEN SkipWs(s, p + 1) ELSE p

RECURSIVE TrimStart(_)
TrimStart(s) == IF s # <<>> /\ IsWs(Head(s)) THEN TrimStart(Tail(s)) ELSE s

RECURSIVE TrimEnd(_)
TrimEnd(s) ==
    IF s # <<>> /\ IsWs(s[Len(s)]) THEN TrimEnd(SubSeq(s, 1, Len(s) - 1)) ELSE s

Trim(s) == TrimEnd(TrimStart(s))

Fence == <<BT, BT, BT>>
FenceLrc == <<BT, BT, BT, "l", "r", "c">>

\* line 149, text.replace(/FENCE lrc\s*|\s*FENCE/g, '') with FENCE three backticks:
\* leftmost matches from position p on, the first alternative tried first at each
\* position, both \s* greedy.
RECURSIVE StripFencesFrom(_, _)
StripFencesFrom(s, p) ==
    IF p > Len(s) THEN <<>>
    ELSE IF StartsAt(s, p, FenceLrc) THEN StripFencesFrom(s, SkipWs(s, p + Len(FenceLrc)))
    ELSE IF StartsAt(s, SkipWs(s, p), Fence)
         THEN StripFencesFrom(s, SkipWs(s, p) + Len(Fence))
    ELSE <<s[p]>> \o StripFencesFrom(s, p + 1)

StripFences(s) == StripFencesFrom(s, 1)

CleanText(text) == Trim(StripFences(text))

(***************************************************************************)
(* The LRC codec.  A parsed line is [timestamp, text, lrcTime]; timestamp  *)
(* is kept in whole milliseconds (MM*60 + SS seconds plus F/100 or F/1000  *)
(* of a second is a whole number of milliseconds for every tag).           *)
(***************************************************************************)
\* lrcContent.split('\n')
RECURSIVE SplitLines(_)
SplitLines(s) ==
    IF \E p \in 1..Len(s) : s[p] = NL
    THEN LET p == CHOOSE q \in 1..Len(s) : s[q] = NL /\ \A r \in 1..(q - 1) : s[r] # NL
         IN <<SubSeq(s, 1, p - 1)>> \o SplitLines(SubSeq(s, p + 1, Len(s)))
    ELSE <<s>>

AllDigits(s, from, to) == to <= Len(s) /\ \A q \in from..to : IsDigit(s[q])
CharAt(s, p, ch) == p <= Len(s) /\ s[p] = ch

\* line 44, the group (\[\d{2}:\d{2}(?:\.\d{1,3})?\]) at position p of s: the set of
\* the lengths it can match with (one at most: the tag ends at its bracket).
TagLengthsAt(s, p) ==
    IF /\ CharAt(s, p, "[") /\ AllDigits(s, p + 1, p + 2)
       /\ CharAt(s, p + 3, ":") /\ AllDigits(s, p + 4, p + 5)
    THEN (IF CharAt(s, p + 6, "]") THEN {7} ELSE {})
         \cup {8 + n : n \in {m \in 1..3 :
                  /\ CharAt(s, p + 6, ".")
                  /\ AllDigits(s, p + 7, p + 6 + m)
                  /\ CharAt(s, p + 7 + m, "]")}}
    ELSE {}

\* The first position >= p of s that holds a line terminator (Len(s) + 1 when none).
RECURSIVE LineEnd(_, _)
LineEnd(s, p) ==
    IF p <= Len(s) /\ ~IsLineTerminator(s[p]) THEN LineEnd(s, p + 1) ELSE p

\* Mutants of LrcEntry.  LrcEntryScaled is the entry with the fraction digits F
\* counted as scale[number of digits] * F milliseconds and lrcTime either the tag
\* or the tag without its brackets (timestampStr).
LrcEntryScaled(s, p, n, scale, bare) ==
    LET tag == SubSeq(s, p, p + n - 1)
        milliseconds == IF n > 7 THEN SubSeq(tag, 8, n - 1) ELSE <<>>
        fraction == IF milliseconds = <<>> THEN 0
                    ELSE scale[Len(milliseconds)] * ParseInt(milliseconds)
    IN [timestamp |->
            (ParseInt(SubSeq(tag, 2, 3)) * 60 + ParseInt(SubSeq(tag, 5, 6))) * 1000 + fraction,
        text |-> Trim(SubSeq(s, p + n, LineEnd(s, p + n) - 1)),
        lrcTime |-> IF bare THEN SubSeq(tag, 2, n - 1) ELSE tag]
\* the divisor is 100 whatever the number of digits
LrcEntryAlwaysHundredths(s, p, n) == LrcEntryScaled(s, p, n, <<10, 10, 10>>, FALSE)
\* a single digit counts tenths
LrcEntryTenths(s, p, n) == LrcEntryScaled(s, p, n, <<100, 10, 1>>, FALSE)
\* lrcTime is timestampStr, the tag with its brackets removed
LrcEntryBareTime(s, p, n) == LrcEntryScaled(s, p, n, <<10, 10, 1>>, TRUE)

\* lines 51-67: the entry of a match whose tag is at p, n characters long.
LrcEntry(s, p, n) ==
    LET tag == SubSeq(s, p, p + n - 1)
        minutes == SubSeq(tag, 2, 3)
        seconds == SubSeq(tag, 5, 6)
        milliseconds == IF n > 7 THEN SubSeq(tag, 8, n - 1) ELSE <<>>
        fraction == IF Len(milliseconds) = 3 THEN ParseInt(milliseconds)
                    ELSE 10 * ParseInt(milliseconds)
    IN [timestamp |-> (ParseInt(minutes) * 60 + ParseInt(seconds)) * 1000 + fraction,
        text |-> Trim(SubSeq(s, p + n, LineEnd(s, p + n) - 1)),
        lrcTime |-> tag]

\* Mutant of MatchLine: a match with no text after the tag gives no entry.
MatchLineSkipsPauses(line) ==
    LET s == Trim(line)
        starts == {p \in 1..Len(s) : TagLengthsAt(s, p) # {}}
    IN IF starts = {} THEN <<>>
       ELSE LET p == CHOOSE q \in starts : \A r \in starts : q <= r
                n == CHOOSE m \in TagLengthsAt(s, p) : TRUE
            IN IF LrcEntry(s, p, n).text = <<>> THEN <<>> ELSE <<LrcEntry(s, p, n)>>

\* lines 48-70: line.trim().match(lineRegex), the leftmost match; <<>> for null.
MatchLine(line) ==
    LET s == Trim(line)
        starts == {p \in 1..Len(s) : TagLengthsAt(s, p) # {}}
    IN IF starts = {} THEN <<>>
       ELSE LET p == CHOOSE q \in starts : \A r \in starts : q <= r
                n == CHOOSE m \in TagLengthsAt(s, p) : TRUE
            IN <<LrcEntry(s, p, n)>>

RECURSIVE MapLines(_)
MapLines(lines) ==
    IF lines = <<>> THEN <<>> ELSE MatchLine(Head(lines)) \o MapLines(Tail(lines))

\* Mutant of InsertByTimestamp: an entry goes before the entries of its timestamp.
RECURSIVE InsertByTimestampUnstable(_, _)
InsertByTimestampUnstable(sorted, e) ==
    IF sorted = <<>> THEN <<e>>
    ELSE IF sorted[Len(sorted)].timestamp < e.timestamp THEN Append(sorted, e)
    ELSE Append(InsertByTimestampUnstable(SubSeq(sorted, 1, Len(sorted) - 1), e),
                sorted[Len(sorted)])

\* line 72: a stable sort on a.timestamp - b.timestamp.
RECURSIVE InsertByTimestamp(_, _)
InsertByTimestamp(sorted, e) ==
    IF sorted = <<>> THEN <<e>>
    ELSE IF sorted[Len(sorted)].timestamp <= e.timestamp THEN Append(sorted, e)
    ELSE Append(InsertByTimestamp(SubSeq(sorted, 1, Len(sorted) - 1), e), sorted[Len(sorted)])

RECURSIVE SortByTimestamp(_)
SortByTimestamp(entries) ==
    IF entries = <<>> THEN <<>>
    ELSE InsertByTimestamp(SortByTimestamp(SubSeq(entries, 1, Len(entries) - 1)),
                           entries[Len(entries)])

\* Mutant of parseLrc: without the guard of line 41, null.split raises a TypeError
\* (shown as a result holding the error's name) and '' is split into one line.
parseLrcUnguarded(lrcContent) ==
    IF lrcContent = None THEN <<"TypeError">>
    ELSE SortByTimestamp(MapLines(SplitLines(lrcContent[1])))

\* lines 40-73; lrcContent is None (null, undefined) or Some(text).
parseLrc(lrcContent) ==
    IF lrcContent = None \/ lrcContent[1] = <<>> THEN <<>>
    ELSE SortByTimestamp(MapLines(SplitLines(lrcContent[1])))

\* Mutant of formatLrc: the tag is written anew from the timestamp, as [mm:ss.xx],
\* instead of taken from lrcTime.
Pad2(n) == <<DigitChars[((n \div 10) % 10) + 1], DigitChars[(n % 10) + 1]>>
TagOfTimestamp(ms) ==
    <<"[">> \o Pad2(ms \div 60000) \o <<":">> \o Pad2((ms \div 1000) % 60)
        \o <<".">> \o Pad2((ms % 1000) \div 10) \o <<"]">>
RECURSIVE formatLrcRegenerated(_)
formatLrcRegenerated(parsedLines) ==
    IF parsedLines = <<>> THEN <<>>
    ELSE IF Len(parsedLines) = 1
         THEN TagOfTimestamp(parsedLines[1].timestamp) \o parsedLines[1].text
    ELSE TagOfTimestamp(parsedLines[1].timestamp) \o parsedLines[1].text \o <<NL>>
            \o formatLrcRegenerated(Tail(parsedLines))

\* lines 75-79
RECURSIVE formatLrc(_)
formatLrc(parsedLines) ==
    IF parsedLines = <<>> THEN <<>>
    ELSE IF Len(parsedLines) = 1 THEN parsedLines[1].lrcTime \o parsedLines[1].text
    ELSE parsedLines[1].lrcTime \o parsedLines[1].text \o <<NL>> \o formatLrc(Tail(parsedLines))

(***************************************************************************)
(* transcribeAudio.  A call is a record: pc is where the call is suspended *)
(* ("fetch": awaiting fetch, "json": awaiting response.json(), "backoff":  *)
(* awaiting the timer) or how it ended ("returned", "threw").              *)
(***************************************************************************)
DefaultMaxRetries == 5
RateLimited == 429
BackoffBase == 1000
JitterRange == 1000

Statuses == {200, 429, 500}
IsOk(status) == status >= 200 /\ status <= 299

\* Math.random() * 1000, in whole milliseconds: the ends of [0, 1000).
Jitters == {0, JitterRange - 1}

RECURSIVE Pow2(_)
Pow2(n) == IF n = 0 THEN 1 ELSE 2 * Pow2(n - 1)

\* Error messages are sequences of strings.
RemoteMsg == <<"quota exceeded">>
NetworkMsg == <<"Failed to fetch">>
JsonMsg == <<"Unexpected end of JSON input">>
EmptyMsg == <<"Received an empty response from the AI model.">>
UnknownMsg == <<"Unknown error during transcription process.">>
StatusMsg(status) == <<"API request failed with status ", ToString(status)>>
FailedPrefix(maxRetries) ==
    <<"Failed to transcribe audio after ", ToString(maxRetries), " attempts: ">>
FailedMsg(maxRetries, msg) == FailedPrefix(maxRetries) \o msg

\* What fetch() settles with: a rejection, or a response with a status.
FetchOutcomes ==
    {[rejects |-> TRUE, status |-> 0]} \cup {[rejects |-> FALSE, status |-> s] : s \in Statuses}

\* The response texts the endpoint may send.
PlainText == <<"a">>
FencedText == FenceLrc \o <<NL, "a", NL>> \o Fence
OnlyFence == Fence
Texts == {PlainText, FencedText, OnlyFence}

\* What response.json() settles with: a rejection, or a body, of which the code
\* reads error.message (a response that is not ok) or the first candidate's text.
BodyRejects == [rejects |-> TRUE, message |-> None, text |-> None]
ErrorBodies ==
    {BodyRejects} \cup
    {[rejects |-> FALSE, message |-> m, text |-> None] : m \in {None, Some(RemoteMsg)}}
OkBodies ==
    {BodyRejects} \cup
    {[rejects |-> FALSE, message |-> None, text |-> t] :
        t \in {None, Some(<<>>)} \cup {Some(x) : x \in Texts}}
Bodies(status) == IF IsOk(status) THEN OkBodies ELSE ErrorBodies

\* line 123: fetch(apiUrl, ...) is called; response is a fresh binding of the iteration.
TxIssue(c) ==
    [c EXCEPT !.pc = "fetch", !.requests = @ + 1, !.inflight = @ + 1, !.status = 0]

\* line 121 (the loop test, i already set) and line 159 (after the loop).
TxLoop(c) ==
    IF c.i < c.maxRetries THEN TxIssue(c)
    ELSE [c EXCEPT !.pc = "threw", !.error = UnknownMsg]

\* lines 88-123: the call runs synchronously up to its first await.
TxStart(maxRetries) ==
    TxLoop([pc |-> "start", maxRetries |-> maxRetries, i |-> 0, requests |-> 0,
            inflight |-> 0, status |-> 0, delay |-> 0, result |-> <<>>, error |-> <<>>])

\* Mutants of TxCatch: the last attempt's error is swallowed too (the test is off
\* by one); the catch block retries whatever the attempt index.
TxCatchOffByOne(c, msg) ==
    IF c.i = c.maxRetries
    THEN [c EXCEPT !.pc = "threw", !.error = FailedMsg(c.maxRetries, msg)]
    ELSE TxLoop([c EXCEPT !.i = @ + 1])

TxCatchUnbounded(c, msg) == TxIssue([c EXCEPT !.i = @ + 1])

\* lines 153-157: the catch block; an error that is not rethrown lets the loop go on.
TxCatch(c, msg) ==
    IF c.i = c.maxRetries - 1
    THEN [c EXCEPT !.pc = "threw", !.error = FailedMsg(c.maxRetries, msg)]
    ELSE TxLoop([c EXCEPT !.i = @ + 1])

\* Mutant of BackoffDelay: the delay grows linearly.
BackoffDelayLinear(i, jitter) == (i + 1) * BackoffBase + jitter

\* line 130: the backoff delay after a 429 on attempt i.
BackoffDelay(i, jitter) == Pow2(i) * BackoffBase + jitter

\* Mutants of TxOnFetch: a 429 is handled like any other error status (no wait);
\* the timer promise is not awaited, so the next request goes out with the timer set.
TxOnFetchNoBackoff(c, out, jitter) ==
    LET d == [c EXCEPT !.inflight = @ - 1] IN
    IF out.rejects THEN TxCatch(d, NetworkMsg)
    ELSE [d EXCEPT !.pc = "json", !.status = out.status]

TxOnFetchNoAwait(c, out, jitter) ==
    LET d == [c EXCEPT !.inflight = @ - 1] IN
    IF out.rejects THEN TxCatch(d, NetworkMsg)
    ELSE IF out.status = RateLimited /\ d.i < d.maxRetries - 1
         THEN [d EXCEPT !.pc = "backoff", !.delay = BackoffDelay(d.i, jitter),
                        !.requests = @ + 1, !.inflight = @ + 1]
    ELSE [d EXCEPT !.pc = "json", !.status = out.status]

\* lines 123-134: fetch settles.
TxOnFetch(c, out, jitter) ==
    LET d == [c EXCEPT !.inflight = @ - 1] IN
    IF out.rejects THEN TxCatch(d, NetworkMsg)
    ELSE IF out.status = RateLimited /\ d.i < d.maxRetries - 1
         THEN [d EXCEPT !.pc = "backoff", !.delay = BackoffDelay(d.i, jitter)]
    ELSE [d EXCEPT !.pc = "json", !.status = out.status]

\* Mutant of TxOnTimer: the timer's promise is never resolved.
TxOnTimerNeverFires(c) == c

\* lines 132-133: the timer fires, continue.
TxOnTimer(c) == TxLoop([c EXCEPT !.i = @ + 1, !.delay = 0])

\* lines 136-151: response.json() settles.
TxOnJson(c, body) ==
    IF body.rejects THEN TxCatch(c, JsonMsg)
    ELSE IF ~IsOk(c.status)
         THEN TxCatch(c, IF body.message # None THEN body.message[1] ELSE StatusMsg(c.status))
    ELSE IF body.text = None \/ body.text[1] = <<>> THEN TxCatch(c, EmptyMsg)
    ELSE [c EXCEPT !.pc = "returned", !.result = CleanText(body.text[1])]

TxEnded(c) == c.pc \in {"returned", "threw"}

(***************************************************************************)
(* SpecClient: one transcribeAudio call against an endpoint that answers   *)
(* each request as it pleases.                                             *)
(***************************************************************************)
\* The label of an attempt that ended when fetch settled.
FetchLabel(out) == IF out.rejects THEN "network" ELSE "429"

\* The label of an attempt that ended when response.json() settled.
JsonLabel(status, body) ==
    IF status = RateLimited THEN "429"
    ELSE IF ~IsOk(status) THEN "error"
    ELSE IF body.rejects THEN "badjson"
    ELSE IF body.text = None \/ body.text[1] = <<>> THEN "empty"
    ELSE "text"

Entry(label, body) == [kind |-> label, message |-> body.message, text |-> body.text]

NoLrc == [step |-> "none", content |-> None, parsed |-> <<>>, formatted |-> <<>>,
          reparsed |-> <<>>, tags |-> <<>>]

IdleApp ==
    /\ appState = "IDLE"
    /\ transcript = None
    /\ audioUrl = None
    /\ currentFile = None
    /\ errorMessage = None
    /\ calls = <<>>

ClientInit ==
    /\ \E m \in 0..MaxRetriesBound : tx = TxStart(m)
    /\ log = <<>>
    /\ waits = <<>>
    /\ IdleApp
    /\ lrc = NoLrc

ClientFetchSettles ==
    /\ tx.pc = "fetch"
    /\ \E out \in FetchOutcomes, jitter \in Jitters :
        /\ tx' = TxOnFetch(tx, out, jitter)
        /\ log' = IF tx'.pc = "json" THEN log ELSE Append(log, Entry(FetchLabel(out), BodyRejects))
        /\ waits' = IF tx'.pc = "backoff"
                    THEN Append(waits, [attempt |-> tx.i, delay |-> tx'.delay])
                    ELSE waits
    /\ UNCHANGED appVars
    /\ UNCHANGED lrcVars

ClientTimerFires ==
    /\ tx.pc = "backoff"
    /\ tx' = TxOnTimer(tx)
    /\ UNCHANGED <<log, waits>>
    /\ UNCHANGED appVars
    /\ UNCHANGED lrcVars

ClientJsonSettles ==
    /\ tx.pc = "json"
    /\ \E body \in Bodies(tx.status) :
        /\ tx' = TxOnJson(tx, body)
        /\ log' = Append(log, Entry(JsonLabel(tx.status, body), body))
    /\ UNCHANGED waits
    /\ UNCHANGED appVars
    /\ UNCHANGED lrcVars

ClientNext == ClientFetchSettles \/ ClientTimerFires \/ ClientJsonSettles

SpecClient == ClientInit /\ [][ClientNext]_vars

(***************************************************************************)
(* Claims about transcribeAudio, checked under SpecClient.                 *)
(***************************************************************************)
AllKind(k, n) == \A j \in 1..n : log[j].kind = k

EndsWith(s, suffix) ==
    /\ Len(suffix) <= Len(s)
    /\ SubSeq(s, Len(s) - Len(suffix) + 1, Len(s)) = suffix

InBackoffRange(w) ==
    /\ Pow2(w.attempt) * 1000 <= w.delay
    /\ w.delay < Pow2(w.attempt) * 1000 + 1000

\* C1: when the endpoint answers the first k requests of a call with 429 and the
\* (k+1)-th with an ok response carrying text, the call returns that text (cleaned)
\* after exactly k+1 requests and k backoff waits, the j-th wait following the
\* j-th request; while only 429s have come, each request but the first followed a wait.
C1_RetryThenSuccess ==
    LET n == Len(log) IN
    /\ (tx.maxRetries >= 1 /\ n >= 1 /\ log[n].kind = "text" /\ AllKind("429", n - 1))
        => /\ tx.pc = "returned"
           /\ tx.result = CleanText(log[n].text[1])
           /\ tx.requests = n
           /\ Len(waits) = n - 1
           /\ \A j \in 1..(n - 1) : waits[j].attempt = j - 1
    /\ (tx.maxRetries >= 1 /\ AllKind("429", n) /\ tx.pc = "fetch")
        => /\ tx.requests = n + 1
           /\ Len(waits) = n

C1_Witness ==
    /\ tx.maxRetries = DefaultMaxRetries
    /\ Len(log) = 3
    /\ AllKind("429", 2)
    /\ log[3].kind = "text"
    /\ tx.pc = "returned"
    /\ Len(waits) = 2

\* C2: when every request is answered 429, the call issues exactly maxRetries
\* requests and then throws the "Failed to transcribe audio after N attempts"
\* error; it never returns and never issues request maxRetries + 1.
C2_AlwaysRateLimited ==
    LET n == Len(log) IN
    (tx.maxRetries >= 1 /\ AllKind("429", n))
        => /\ tx.pc # "returned"
           /\ tx.requests <= tx.maxRetries
           /\ n <= tx.maxRetries
           /\ (n < tx.maxRetries => ~TxEnded(tx))
           /\ (n = tx.maxRetries
                 => /\ tx.pc = "threw"
                    /\ tx.requests = tx.maxRetries
                    /\ StartsAt(tx.error, 1, FailedPrefix(tx.maxRetries)))

C2_Witness ==
    /\ tx.maxRetries = 3
    /\ Len(log) = 3
    /\ AllKind("429", 3)
    /\ tx.pc = "threw"
    /\ tx.requests = 3

\* C3 (as claimed): a response that is not ok and not 429 ends the call at once: no
\* request follows it, the call has thrown, and the error carries the remote message.
C3_RemoteFailureImmediate ==
    \A j \in 1..Len(log) :
        log[j].kind = "error"
            => /\ tx.requests = j
               /\ tx.pc = "threw"
               /\ (log[j].message # None => EndsWith(tx.error, log[j].message[1]))

\* C4 (as claimed): an ok response without text ends the call in the empty-response
\* failure: the call never returns after it and throws no other failure.
C4_EmptyResultFailure ==
    \A j \in 1..Len(log) :
        log[j].kind = "empty"
            => /\ tx.pc = "threw"
               /\ EndsWith(tx.error, EmptyMsg)

\* C5: a call never issues more than maxRetries requests, whatever the endpoint answers.
C5_AttemptsBounded ==
    /\ tx.requests <= tx.maxRetries
    /\ Len(log) <= tx.maxRetries

C5_Witness ==
    /\ tx.maxRetries = DefaultMaxRetries
    /\ tx.requests = DefaultMaxRetries
    /\ TxEnded(tx)
    /\ \E j \in 1..Len(log) : log[j].kind = "error"
    /\ \E j \in 1..Len(log) : log[j].kind = "network"
    /\ \E j \in 1..Len(log) : log[j].kind = "empty"

\* C6: after a 429 on attempt i < maxRetries - 1 the call waits d ms with
\* 2^i * 1000 <= d < 2^i * 1000 + 1000, and it waits at no other time.
C6_BackoffDelay ==
    /\ \A w \in 1..Len(waits) :
        /\ InBackoffRange(waits[w])
        /\ log[waits[w].attempt + 1].kind = "429"
    /\ \A j \in 1..Len(log) :
        (log[j].kind = "429" /\ j - 1 < tx.maxRetries - 1)
            => \E w \in 1..Len(waits) : waits[w].attempt = j - 1
    /\ tx.pc = "backoff" => waits[Len(waits)] = [attempt |-> tx.i, delay |-> tx.delay]

C6_Witness ==
    /\ Len(waits) = 4
    /\ waits[1].delay = 1000
    /\ waits[2].delay = 2999
    /\ waits[3].delay = 4000
    /\ waits[4].delay = 8999

\* C9: the attempts of a call are sequential: a request is outstanding exactly while
\* the call awaits fetch, so never two at once and none during a backoff wait, and
\* each step issues at most one request, after the previous one has settled.
C9_Sequential ==
    /\ tx.inflight = (IF tx.pc = "fetch" THEN 1 ELSE 0)
    /\ tx.requests = (IF tx.maxRetries = 0 THEN 0 ELSE tx.i + 1)

C9_Witness ==
    /\ tx.pc = "backoff"
    /\ tx.requests = 3
    /\ tx.inflight = 0

\* C23: every request of the call after its first follows a backoff wait: when
\* a request was issued after attempt i ended (i counted from 0), the call has
\* waited after attempt i, for at least 2^i * 1000 ms.
C23_BackoffBeforeRetry ==
    \A j \in 1..Len(log) :
        tx.requests > j
            => \E w \in 1..Len(waits) :
                 /\ waits[w].attempt = j - 1
                 /\ waits[w].delay >= Pow2(j - 1) * BackoffBase

(***************************************************************************)
(* SpecClean: one transcribeAudio call with maxRetries = 1 whose single    *)
(* request is answered ok, with a text composed of optional fence markers, *)
(* whitespace and a short body.                                            *)
(***************************************************************************)
SeqsUpTo(S, n) == UNION {[1..k -> S] : k \in 0..n}

BodyChars == {"a", BT, SP, NL}
WsRuns == {<<>>, <<NL>>}

FenceTexts ==
    {pre \o open \o sep1 \o body \o sep2 \o close \o post :
        pre \in WsRuns, open \in {<<>>, Fence, FenceLrc}, sep1 \in WsRuns,
        body \in SeqsUpTo(BodyChars, MaxBody),
        sep2 \in WsRuns, close \in {<<>>, Fence}, post \in WsRuns}

CleanInit ==
    /\ tx = TxStart(1)
    /\ log = <<>>
    /\ waits = <<>>
    /\ IdleApp
    /\ lrc = NoLrc

CleanFetchSettles ==
    /\ tx.pc = "fetch"
    /\ tx' = TxOnFetch(tx, [rejects |-> FALSE, status |-> 200], 0)
    /\ UNCHANGED <<log, waits>>
    /\ UNCHANGED appVars
    /\ UNCHANGED lrcVars

CleanJsonSettles ==
    /\ tx.pc = "json"
    /\ \E t \in FenceTexts :
        LET body == [rejects |-> FALSE, message |-> None, text |-> Some(t)] IN
        /\ tx' = TxOnJson(tx, body)
        /\ log' = Append(log, Entry(JsonLabel(tx.status, body), body))
    /\ UNCHANGED waits
    /\ UNCHANGED appVars
    /\ UNCHANGED lrcVars

CleanNext == CleanFetchSettles \/ CleanJsonSettles

SpecClean == CleanInit /\ [][CleanNext]_vars

\* The text (trimmed) opens with the three-backtick lrc marker and closes with the
\* three-backtick marker; InnerBody is what lies between the two.
IsFenced(t) ==
    LET u == Trim(t) IN
    /\ Len(u) >= Len(FenceLrc) + Len(Fence)
    /\ StartsAt(u, 1, FenceLrc)
    /\ StartsAt(u, Len(u) - Len(Fence) + 1, Fence)

InnerBody(t) ==
    LET u == Trim(t) IN SubSeq(u, Len(FenceLrc) + 1, Len(u) - Len(Fence))

\* The number of places of t where three backticks in a row begin.
FenceCount(t) == Cardinality({p \in 1..Len(t) : StartsAt(t, p, Fence)})

\* C7 (as claimed, for the texts in which three backticks in a row occur only as
\* the two markers): a returned text that was an lrc-fenced body is exactly the
\* inner body, trimmed; a text with no three backticks in a row is returned trimmed.
C7_FenceStripped ==
    (tx.pc = "returned")
        => LET t == log[1].text[1] IN
           /\ (IsFenced(t) /\ FenceCount(t) = 2) => tx.result = Trim(InnerBody(t))
           /\ FenceCount(t) = 0 => tx.result = Trim(t)

(***************************************************************************)
(* The App component (App.jsx).  A handleAnalyze invocation is a record of *)
(* calls: the file it captured, where it is ("reading": awaiting the       *)
(* FileReader, "transcribing": awaiting transcribeAudio, "done", "failed") *)
(* and its transcribeAudio call.                                           *)
(***************************************************************************)
NoTx ==
    [pc |-> "none", maxRetries |-> 0, i |-> 0, requests |-> 0, inflight |-> 0,
     status |-> 0, delay |-> 0, result |-> <<>>, error |-> <<>>]

\* The files the user may offer: name and MIME type.
AudioFiles == {[name |-> "a.mp3", type |-> <<"audio/", "mpeg">>]}
OtherFiles == {[name |-> "c.txt", type |-> <<"text/", "plain">>]}
Files == AudioFiles \cup OtherFiles

\* file.type.startsWith('audio/')
IsAudio(file) == file.type[1] = "audio/"

ReadDataMsg == <<"Failed to read file data.">>
ReadErrorMsg == <<"Failed to read the file.">>
FallbackMsg == <<"Transcription failed. Please check file type and size.">>

\* What the FileReader ends with: a data URL with a base64 part, a data URL
\* without one, or an error event.
ReadOutcomes == {"data", "nodata", "error"}

IsLoading == appState = "PROCESSING"

\* !transcript
NoTranscript == transcript = None \/ transcript = Some(<<>>)

AppInit ==
    /\ IdleApp
    /\ tx = NoTx
    /\ log = <<>>
    /\ waits = <<>>
    /\ lrc = NoLrc

\* lines 465-477
HandleFileSelect(file) ==
    /\ transcript' = None
    /\ errorMessage' = None
    /\ appState' = "IDLE"
    /\ currentFile' = Some(file)
    /\ audioUrl' = Some(file.name)
    /\ UNCHANGED calls

\* lines 268-278: a file is dropped on the uploader (rendered while no file is set).
HandleDrop ==
    /\ currentFile = None
    /\ \E file \in Files :
        IF ~IsLoading /\ IsAudio(file) THEN HandleFileSelect(file) ELSE UNCHANGED appVars
    /\ UNCHANGED clientVars
    /\ UNCHANGED lrcVars

\* lines 280-284: a file is picked in the browse dialog.
HandleFileChange ==
    /\ currentFile = None
    /\ \E file \in Files : HandleFileSelect(file)
    /\ UNCHANGED clientVars
    /\ UNCHANGED lrcVars

\* lines 479-488, from the Generate Lyrics button (lines 393-405).
HandleAnalyze ==
    /\ currentFile # None
    /\ NoTranscript /\ ~IsLoading
    /\ Len(calls) < MaxCalls
    /\ appState' = "PROCESSING"
    /\ errorMessage' = None
    /\ calls' = Append(calls, [file |-> currentFile[1], pc |-> "reading", tx |-> NoTx])
    /\ UNCHANGED <<transcript, audioUrl, currentFile>>
    /\ UNCHANGED clientVars
    /\ UNCHANGED lrcVars

\* Mutant of AnalyzeFails: the failure's message is shown as the transcript too.
AnalyzeFailsShowsOutput(msg) ==
    /\ errorMessage' = Some(IF msg = <<>> THEN FallbackMsg ELSE msg)
    /\ appState' = "ERROR"
    /\ transcript' = Some(msg)
    /\ UNCHANGED <<audioUrl, currentFile>>

\* lines 513-516: the catch block of handleAnalyze.
AnalyzeFails(msg) ==
    /\ errorMessage' = Some(IF msg = <<>> THEN FallbackMsg ELSE msg)
    /\ appState' = "ERROR"
    /\ UNCHANGED <<transcript, audioUrl, currentFile>>

\* What is left of a transcribeAudio call that ended: its value or its error (the
\* locals of the call are gone).
TxSettled(c) == [NoTx EXCEPT !.pc = c.pc, !.result = c.result, !.error = c.error]

\* lines 510-517: handleAnalyze goes on after transcribeAudio, whose call is now c.
AnalyzeContinues(k, c) ==
    IF c.pc = "returned"
    THEN /\ transcript' = Some(c.result)
         /\ appState' = "READY"
         /\ calls' = [calls EXCEPT ![k].tx = TxSettled(c), ![k].pc = "done"]
         /\ UNCHANGED <<audioUrl, currentFile, errorMessage>>
    ELSE IF c.pc = "threw"
    THEN /\ AnalyzeFails(c.error)
         /\ calls' = [calls EXCEPT ![k].tx = TxSettled(c), ![k].pc = "failed"]
    ELSE /\ calls' = [calls EXCEPT ![k].tx = c, ![k].pc = "transcribing"]
         /\ UNCHANGED <<appState, transcript, audioUrl, currentFile, errorMessage>>

\* lines 491-510: the FileReader ends; with data, transcribeAudio is called.
ReaderEnds(k) ==
    /\ calls[k].pc = "reading"
    /\ \E out \in ReadOutcomes :
        IF out = "data"
        THEN AnalyzeContinues(k, TxStart(DefaultMaxRetries))
        ELSE /\ AnalyzeFails(IF out = "nodata" THEN ReadDataMsg ELSE ReadErrorMsg)
             /\ calls' = [calls EXCEPT ![k].pc = "failed"]
    /\ UNCHANGED clientVars
    /\ UNCHANGED lrcVars

\* transcribeAudio lines 123-134 inside the call of invocation k.
AppFetchSettles(k) ==
    /\ calls[k].pc = "transcribing" /\ calls[k].tx.pc = "fetch"
    /\ \E out \in FetchOutcomes, jitter \in Jitters :
        AnalyzeContinues(k, TxOnFetch(calls[k].tx, out, jitter))
    /\ UNCHANGED clientVars
    /\ UNCHANGED lrcVars

\* transcribeAudio lines 132-133 inside the call of invocation k.
AppTimerFires(k) ==
    /\ calls[k].pc = "transcribing" /\ calls[k].tx.pc = "backoff"
    /\ AnalyzeContinues(k, TxOnTimer(calls[k].tx))
    /\ UNCHANGED clientVars
    /\ UNCHANGED lrcVars

\* transcribeAudio lines 136-157 inside the call of invocation k.
AppJsonSettles(k) ==
    /\ calls[k].pc = "transcribing" /\ calls[k].tx.pc = "json"
    /\ \E body \in Bodies(calls[k].tx.status) :
        AnalyzeContinues(k, TxOnJson(calls[k].tx, body))
    /\ UNCHANGED clientVars
    /\ UNCHANGED lrcVars

\* lines 520-526, from the Change File button of the PlayerCard.
ResetApp ==
    /\ currentFile # None
    /\ audioUrl' = None
    /\ transcript' = None
    /\ currentFile' = None
    /\ appState' = "IDLE"
    /\ errorMessage' = None
    /\ UNCHANGED calls
    /\ UNCHANGED clientVars
    /\ UNCHANGED lrcVars

\* line 609: the close button of the error notification.
DismissError ==
    /\ errorMessage # None
    /\ errorMessage' = None
    /\ UNCHANGED <<appState, transcript, audioUrl, currentFile, calls>>
    /\ UNCHANGED clientVars
    /\ UNCHANGED lrcVars

AppNext ==
    \/ HandleDrop
    \/ HandleFileChange
    \/ HandleAnalyze
    \/ ResetApp
    \/ DismissError
    \/ \E k \in 1..Len(calls) : ReaderEnds(k)
    \/ \E k \in 1..Len(calls) : AppFetchSettles(k)
    \/ \E k \in 1..Len(calls) : AppTimerFires(k)
    \/ \E k \in 1..Len(calls) : AppJsonSettles(k)

Spec == AppInit /\ [][AppNext]_vars

(***************************************************************************)
(* Claims about the App, checked under Spec.                               *)
(***************************************************************************)
Fails(k) == calls[k].pc \notin {"done", "failed"} /\ calls'[k].pc = "failed"
Succeeds(k) == calls[k].pc = "transcribing" /\ calls'[k].pc = "done"

\* C8: the step in which a handleAnalyze invocation fails changes errorMessage and
\* appState only (transcript, currentFile and audioUrl stay as they were), and
\* transcript changes only to null or, in the step in which an invocation's
\* transcribeAudio call returns, to the cleaned text that call returned.
C8_NoOutputOnFailure ==
    /\ [][\A k \in 1..Len(calls) :
            Fails(k) => /\ transcript' = transcript
                        /\ currentFile' = currentFile
                        /\ audioUrl' = audioUrl
                        /\ appState' = "ERROR"
                        /\ errorMessage' # None]_vars
    /\ [][transcript' # transcript
            => \/ transcript' = None
               \/ \E k \in 1..Len(calls) :
                    /\ Succeeds(k)
                    /\ calls'[k].tx.pc = "returned"
                    /\ calls'[k].tx.result \in {CleanText(t) : t \in Texts}
                    /\ transcript' = Some(calls'[k].tx.result)]_vars

\* An invocation failed while the transcript of another one is shown.
C8_Witness ==
    /\ Len(calls) = 2
    /\ calls[1].pc = "done"
    /\ calls[2].pc = "failed" /\ calls[2].tx.pc = "threw"
    /\ transcript = Some(<<"a">>)
    /\ appState = "ERROR"
    /\ errorMessage = Some(calls[2].tx.error)

\* C19: the step in which a handleAnalyze invocation fails (the file could not be
\* read, or transcribeAudio threw) leaves the App in ERROR with a message, issues
\* no request, and leaves Generate Lyrics on offer for the file of the invocation:
\* that file is the current one, there is no transcript and nothing is loading.
C19_ErrorAllowsRetry ==
    [][\A k \in 1..Len(calls) :
        Fails(k) => /\ appState' = "ERROR"
                    /\ errorMessage' # None
                    /\ Len(calls') = Len(calls)
                    /\ \A j \in 1..Len(calls) :
                         calls'[j].tx.pc = "fetch" => calls'[j].tx = calls[j].tx
                    /\ currentFile' = Some(calls[k].file)
                    /\ transcript' \in {None, Some(<<>>)}]_vars

\* C20: the step in which an invocation ends, with a result or a failure, while
\* the file it was started for is no longer the current file (Change File was
\* pressed, or another file chosen after it) changes none of transcript, appState
\* and errorMessage.
C20_StaleResultIgnored ==
    [][\A k \in 1..Len(calls) :
        ((Fails(k) \/ Succeeds(k)) /\ currentFile # Some(calls[k].file))
            => /\ transcript' = transcript
               /\ appState' = appState
               /\ errorMessage' = errorMessage]_vars

\* C21: appState changes to PROCESSING only in a step that starts an invocation
\* with a file selected, to READY only from PROCESSING in a step in which an
\* invocation succeeds, to ERROR only from PROCESSING in a step in which an
\* invocation fails, and to IDLE only in a step that selects a file or resets.
C21_StateMachine ==
    [][appState' # appState
        => \/ /\ appState' = "PROCESSING"
              /\ currentFile # None
              /\ Len(calls') = Len(calls) + 1
           \/ /\ appState' = "READY"
              /\ appState = "PROCESSING"
              /\ \E k \in 1..Len(calls) : Succeeds(k)
           \/ /\ appState' = "ERROR"
              /\ appState = "PROCESSING"
              /\ \E k \in 1..Len(calls) : Fails(k)
           \/ /\ appState' = "IDLE"
              /\ currentFile' # currentFile]_vars

\* C22: at most one invocation has a transcribeAudio call that has not ended.
C22_SingleCallInFlight ==
    Cardinality({k \in 1..Len(calls) : calls[k].pc = "transcribing"}) <= 1

\* C24: a transcribeAudio call that returned has returned a non-empty text, and
\* in READY the transcript is a non-empty text.
C24_ResultNonEmpty ==
    /\ \A k \in 1..Len(calls) : calls[k].tx.pc = "returned" => calls[k].tx.result # <<>>
    /\ appState = "READY" => transcript \notin {None, Some(<<>>)}

\* C26: a step that makes a file the current file makes an audio file so, and not
\* while the App is in PROCESSING.
C26_OnlyAudioSelected ==
    [][(currentFile' # currentFile /\ currentFile' # None)
        => /\ IsAudio(currentFile'[1])
           /\ appState # "PROCESSING"]_vars

(***************************************************************************)
(* SpecLive: the App with every pending FileReader, fetch, response.json() *)
(* and timer of every invocation eventually settling (the browser's event  *)
(* loop runs a settled promise's continuation and a due timer's callback). *)
(* The user's actions are under no obligation.                             *)
(***************************************************************************)
Settles(k) ==
    /\ WF_vars(k <= Len(calls) /\ ReaderEnds(k))
    /\ WF_vars(k <= Len(calls) /\ AppFetchSettles(k))
    /\ WF_vars(k <= Len(calls) /\ AppTimerFires(k))
    /\ WF_vars(k <= Len(calls) /\ AppJsonSettles(k))

LiveNext == AppNext /\ Len(calls') <= MaxLiveCalls

SpecLive == AppInit /\ [][LiveNext]_vars /\ \A k \in 1..MaxLiveCalls : Settles(k)

\* C25: every invocation that was started ends (its file read fails, or its
\* transcribeAudio call returns or throws), and PROCESSING is always followed by
\* READY, ERROR or IDLE.
C25_EventuallySettles ==
    /\ \A k \in 1..MaxLiveCalls :
         [](k <= Len(calls) => <>(k <= Len(calls) /\ calls[k].pc \in {"done", "failed"}))
    /\ (appState = "PROCESSING") ~> (appState \in {"READY", "ERROR", "IDLE"})

\* An invocation has ended after the last attempt of its call, Change File having
\* been pressed while the call was in flight.
C25_Witness ==
    /\ Len(calls) = 1
    /\ calls[1].pc = "failed"
    /\ calls[1].tx.error = FailedMsg(DefaultMaxRetries, NetworkMsg)
    /\ currentFile = None
    /\ appState = "ERROR"

(***************************************************************************)
(* SpecLrc: a text of up to MaxLines lines is parsed, the result formatted *)
(* and the formatted text parsed again.                                    *)
(***************************************************************************)
Tag(mm, ss, frac) ==
    <<"[">> \o mm \o <<":">> \o ss \o (IF frac = <<>> THEN <<>> ELSE <<".">> \o frac) \o <<"]">>

GoodTags ==
    {Tag(<<"0", "0">>, <<"0", "1">>, f) : f \in {<<>>, <<"5">>, <<"0", "5">>, <<"5", "0", "0">>}}
    \cup {Tag(<<"0", "1">>, <<"0", "0">>, <<>>)}
BadTags == {Tag(<<"0", "0">>, <<"0", "1">>, <<"5", "0", "0", "0">>)}

LinePrefixes == {<<>>, <<SP>>, <<"a">>}
LineRests == {<<>>, <<SP, "b", CR>>, <<"b", CR, "c">>, Tag(<<"0", "0">>, <<"0", "0">>, <<>>)}

\* Every tag with every rest, and what may precede a tag with some of them.
LrcLines ==
    {t \o r : t \in GoodTags \cup BadTags \cup {<<>>}, r \in LineRests}
    \cup {p \o t \o r : p \in LinePrefixes,
                         t \in {Tag(<<"0", "0">>, <<"0", "1">>, <<"5">>), <<>>},
                         r \in {<<>>, <<SP, "b", CR>>}}

RECURSIVE JoinLines(_)
JoinLines(lines) ==
    IF Len(lines) = 1 THEN lines[1] ELSE lines[1] \o <<NL>> \o JoinLines(Tail(lines))

LrcTexts == {JoinLines(ls) : ls \in UNION {[1..n -> LrcLines] : n \in 1..MaxLines}}

\* The texts "[01:02.5] hello", "[01:02.50]" before "[01:02.5] hello", "[00:10.123]"
\* and "[01:02]".
Hello == <<SP, "h", "e", "l", "l", "o">>
ExampleTexts ==
    {Tag(<<"0", "1">>, <<"0", "2">>, <<"5">>) \o Hello,
     Tag(<<"0", "1">>, <<"0", "2">>, <<"5", "0">>) \o <<NL>>
        \o Tag(<<"0", "1">>, <<"0", "2">>, <<"5">>) \o Hello,
     Tag(<<"0", "0">>, <<"1", "0">>, <<"1", "2", "3">>),
     Tag(<<"0", "1">>, <<"0", "2">>, <<>>)}

LrcInit ==
    /\ \E c \in {None} \cup {Some(t) : t \in LrcTexts \cup ExampleTexts} :
        lrc = [NoLrc EXCEPT !.step = "input", !.content = c]
    /\ tx = NoTx
    /\ log = <<>>
    /\ waits = <<>>
    /\ IdleApp

LrcParse ==
    /\ lrc.step = "input"
    /\ lrc' = [lrc EXCEPT !.step = "parsed", !.parsed = parseLrc(lrc.content)]
    /\ UNCHANGED clientVars
    /\ UNCHANGED appVars

LrcFormat ==
    /\ lrc.step = "parsed"
    /\ lrc' = [lrc EXCEPT !.step = "formatted", !.formatted = formatLrc(lrc.parsed)]
    /\ UNCHANGED clientVars
    /\ UNCHANGED appVars

LrcReparse ==
    /\ lrc.step = "formatted"
    /\ lrc' = [lrc EXCEPT !.step = "reparsed", !.reparsed = parseLrc(Some(lrc.formatted))]
    /\ UNCHANGED clientVars
    /\ UNCHANGED appVars

\* parseLrc is given the lrcTime of each parsed entry, alone.
LrcParseTags ==
    /\ lrc.step = "parsed"
    /\ lrc' = [lrc EXCEPT !.step = "tags",
                          !.tags = [j \in 1..Len(lrc.parsed) |->
                                        parseLrc(Some(lrc.parsed[j].lrcTime))]]
    /\ UNCHANGED clientVars
    /\ UNCHANGED appVars

LrcNext == LrcParse \/ LrcFormat \/ LrcReparse \/ LrcParseTags

SpecLrc == LrcInit /\ [][LrcNext]_vars

\* C10: parsing the formatted result of a parse gives that result again, entry by
\* entry: same length, same order, same timestamp, text and lrcTime.
C10_RoundTrip ==
    lrc.step = "reparsed"
        => /\ Len(lrc.reparsed) = Len(lrc.parsed)
           /\ \A j \in 1..Len(lrc.parsed) :
                /\ lrc.reparsed[j].timestamp = lrc.parsed[j].timestamp
                /\ lrc.reparsed[j].text = lrc.parsed[j].text
                /\ lrc.reparsed[j].lrcTime = lrc.parsed[j].lrcTime

\* Two lines with one timestamp written two ways, out of order with a third tag
\* inside a text, have made the round trip.
C10_Witness ==
    /\ lrc.step = "reparsed"
    /\ Len(lrc.parsed) = 2
    /\ lrc.parsed[1].timestamp = lrc.parsed[2].timestamp
    /\ lrc.parsed[1].lrcTime # lrc.parsed[2].lrcTime
    /\ lrc.parsed[1].text = Tag(<<"0", "0">>, <<"0", "0">>, <<>>)
    /\ lrc.reparsed = lrc.parsed

(***************************************************************************)
(* More claims about the codec, checked under SpecLrc.  The lines of the   *)
(* input and their tags are found here from the text itself.               *)
(***************************************************************************)
InputLines == IF lrc.content = None THEN <<>> ELSE SplitLines(lrc.content[1])

HasTag(line) == \E p \in 1..Len(line) : TagLengthsAt(line, p) # {}
FirstTagPos(line) ==
    CHOOSE p \in 1..Len(line) :
        TagLengthsAt(line, p) # {} /\ \A q \in 1..(p - 1) : TagLengthsAt(line, q) = {}
FirstTagLen(line) == CHOOSE n \in TagLengthsAt(line, FirstTagPos(line)) : TRUE
FirstTag(line) == SubSeq(line, FirstTagPos(line), FirstTagPos(line) + FirstTagLen(line) - 1)
AfterFirstTag(line) == SubSeq(line, FirstTagPos(line) + FirstTagLen(line), Len(line))
TaggedLines == SelectSeq(InputLines, HasTag)

\* The lines of a formatted text (none when it is empty).
OutputLines == IF lrc.formatted = <<>> THEN <<>> ELSE SplitLines(lrc.formatted)

Bijections(n) == {f \in [1..n -> 1..n] : \A i, j \in 1..n : f[i] = f[j] => i = j}

\* The milliseconds a tag stands for, digit by digit: [MM:SS], [MM:SS.F], [MM:SS.FF]
\* (hundredths) or [MM:SS.FFF] (thousandths).
TagMillis(tag) ==
    LET d(q) == DigitVal(tag[q])
        whole == ((10 * d(2) + d(3)) * 60 + 10 * d(5) + d(6)) * 1000
    IN IF Len(tag) = 7 THEN whole
       ELSE IF Len(tag) = 9 THEN whole + 10 * d(8)
       ELSE IF Len(tag) = 10 THEN whole + 10 * (10 * d(8) + d(9))
       ELSE whole + 100 * d(8) + 10 * d(9) + d(10)

\* C11 (text taken as trimmed, as parseLrc keeps it): the lines of
\* formatLrc(parseLrc(T)) are, one for one, the tagged lines of T, each as its tag
\* followed by the text after the tag, in ascending order of timestamp, lines of
\* one timestamp in their order in T; untagged lines are left out.
C11_FormatOfParse ==
    lrc.step = "formatted"
        => /\ Len(OutputLines) = Len(TaggedLines)
           /\ \E f \in Bijections(Len(TaggedLines)) :
                /\ \A i \in 1..Len(TaggedLines) :
                     OutputLines[f[i]] =
                        FirstTag(TaggedLines[i]) \o Trim(AfterFirstTag(TaggedLines[i]))
                /\ \A i, j \in 1..Len(TaggedLines) :
                     /\ TagMillis(FirstTag(TaggedLines[i])) < TagMillis(FirstTag(TaggedLines[j]))
                            => f[i] < f[j]
                     /\ (i < j /\ TagMillis(FirstTag(TaggedLines[i]))
                                    = TagMillis(FirstTag(TaggedLines[j])))
                            => f[i] < f[j]

\* C12: the result of parseLrc is in ascending order of timestamp, and it is the
\* entries of the lines in input order rearranged so that entries of one timestamp
\* keep their order.
C12_SortedStable ==
    lrc.step = "parsed"
        => LET unsorted == MapLines(InputLines) IN
           /\ \A j \in 1..(Len(lrc.parsed) - 1) :
                lrc.parsed[j].timestamp <= lrc.parsed[j + 1].timestamp
           /\ Len(lrc.parsed) = Len(unsorted)
           /\ \E f \in Bijections(Len(unsorted)) :
                /\ \A i \in 1..Len(unsorted) : lrc.parsed[f[i]] = unsorted[i]
                /\ \A i, j \in 1..Len(unsorted) :
                     (i < j /\ unsorted[i].timestamp = unsorted[j].timestamp) => f[i] < f[j]

\* Two lines of one timestamp written two ways were parsed, in this order:
\* the entries are in the order of the lines.
C12_Witness ==
    /\ lrc.step = "parsed"
    /\ Len(lrc.parsed) = 2
    /\ lrc.parsed[1].timestamp = lrc.parsed[2].timestamp
    /\ lrc.parsed[1].lrcTime # lrc.parsed[2].lrcTime
    /\ FirstTag(InputLines[1]) = lrc.parsed[1].lrcTime
    /\ FirstTag(InputLines[2]) = lrc.parsed[2].lrcTime

\* C13: parseLrc gives a result for every text; it has one entry for each line
\* that holds a tag (with empty text when nothing follows the tag) and none for
\* the other lines.
C13_OneEntryPerTaggedLine ==
    lrc.step = "parsed"
        => /\ Len(lrc.parsed) = Len(TaggedLines)
           /\ \A i \in 1..Len(TaggedLines) :
                \E j \in 1..Len(lrc.parsed) :
                    /\ lrc.parsed[j].lrcTime = FirstTag(TaggedLines[i])
                    /\ AfterFirstTag(TaggedLines[i]) = <<>> => lrc.parsed[j].text = <<>>

\* A line whose tag the pattern rejects and a line that is a tag alone: one entry,
\* a pause marker.
C13_Witness ==
    /\ lrc.step = "parsed"
    /\ Len(InputLines) = 2
    /\ InputLines[1] \in BadTags
    /\ InputLines[2] \in GoodTags
    /\ Len(lrc.parsed) = 1
    /\ lrc.parsed[1].text = <<>>

\* C14: parseLrc of null, of undefined and of '' is the empty sequence.
C14_EmptyInput ==
    (lrc.step = "parsed" /\ lrc.content \in {None, Some(<<>>)}) => lrc.parsed = <<>>

C14_Witness ==
    /\ lrc.step = "parsed"
    /\ lrc.content = None
    /\ lrc.parsed = <<>>

\* C15: the timestamp of an entry is MM*60 + SS seconds plus F/1000 when the tag
\* has three fraction digits, F/100 when it has one or two and nothing when it has
\* none; in milliseconds [01:02.50] is 62500, [00:10.123] is 10123, [01:02] is 62000.
C15_Timestamp ==
    lrc.step = "parsed"
        => /\ \A j \in 1..Len(lrc.parsed) :
                /\ lrc.parsed[j].timestamp = TagMillis(lrc.parsed[j].lrcTime)
                /\ lrc.parsed[j].lrcTime = Tag(<<"0", "1">>, <<"0", "2">>, <<"5", "0">>)
                        => lrc.parsed[j].timestamp = 62500
                /\ lrc.parsed[j].lrcTime = Tag(<<"0", "0">>, <<"1", "0">>, <<"1", "2", "3">>)
                        => lrc.parsed[j].timestamp = 10123
                /\ lrc.parsed[j].lrcTime = Tag(<<"0", "1">>, <<"0", "2">>, <<>>)
                        => lrc.parsed[j].timestamp = 62000
           /\ lrc.content \in {Some(t) : t \in ExampleTexts} => lrc.parsed # <<>>

C15_Witness ==
    /\ lrc.step = "parsed"
    /\ lrc.content = Some(Tag(<<"0", "0">>, <<"1", "0">>, <<"1", "2", "3">>))
    /\ Len(lrc.parsed) = 1
    /\ lrc.parsed[1].timestamp = 10123

\* C16: "[01:02.5] hello" parses to one entry, of 62050 ms and text "hello"; after
\* a line "[01:02.50]" the same line parses to the earlier of two entries.
C16_SingleDigitFraction ==
    LET half == Tag(<<"0", "1">>, <<"0", "2">>, <<"5">>)
        hello == [timestamp |-> 62050, text |-> Tail(Hello), lrcTime |-> half]
    IN /\ (lrc.step = "parsed" /\ lrc.content = Some(half \o Hello))
            => lrc.parsed = <<hello>>
       /\ (lrc.step = "parsed" /\ Len(InputLines) = 2 /\ lrc.content \in {Some(t) : t \in ExampleTexts})
            => /\ Len(lrc.parsed) = 2
               /\ lrc.parsed[1] = hello
               /\ lrc.parsed[2].lrcTime = Tag(<<"0", "1">>, <<"0", "2">>, <<"5", "0">>)
               /\ lrc.parsed[2].timestamp # lrc.parsed[1].timestamp

C16_Witness ==
    /\ lrc.step = "parsed"
    /\ InputLines = <<Tag(<<"0", "1">>, <<"0", "2">>, <<"5", "0">>),
                      Tag(<<"0", "1">>, <<"0", "2">>, <<"5">>) \o Hello>>
    /\ Len(lrc.parsed) = 2
    /\ lrc.parsed[1].timestamp = 62050
    /\ lrc.parsed[2].timestamp = 62500

\* C17: the lrcTime of an entry is a bracketed tag of the input, character for
\* character, and parseLrc of it alone is one entry of the same timestamp.
C17_RawTag ==
    /\ lrc.step \in {"parsed", "tags"}
        => \A j \in 1..Len(lrc.parsed) :
             \E i \in 1..Len(InputLines) :
                /\ HasTag(InputLines[i])
                /\ FirstTag(InputLines[i]) = lrc.parsed[j].lrcTime
    /\ lrc.step = "tags"
        => /\ Len(lrc.tags) = Len(lrc.parsed)
           /\ \A j \in 1..Len(lrc.parsed) :
                /\ Len(lrc.tags[j]) = 1
                /\ lrc.tags[j][1].timestamp = lrc.parsed[j].timestamp

C17_Witness ==
    /\ lrc.step = "tags"
    /\ Len(lrc.parsed) = 2
    /\ lrc.parsed[1].lrcTime = Tag(<<"0", "0">>, <<"0", "1">>, <<"5">>)
    /\ lrc.parsed[1].text # <<>>
    /\ lrc.tags[1] = <<[timestamp |-> 1050, text |-> <<>>, lrcTime |-> lrc.parsed[1].lrcTime]>>
    /\ lrc.parsed[2].lrcTime = Tag(<<"0", "0">>, <<"0", "1">>, <<"5", "0", "0">>)
    /\ lrc.tags[2][1].timestamp = 1500

\* C18: a line gives an entry exactly when, trimmed, it begins with a tag, and the
\* entry of such a line is that tag and all that follows it, trimmed.
StartsWithTag(line) == TagLengthsAt(Trim(line), 1) # {}
C18_TagAtLineStart ==
    lrc.step = "parsed"
        => /\ Len(lrc.parsed) = Len(SelectSeq(InputLines, StartsWithTag))
           /\ \A i \in 1..Len(InputLines) :
                StartsWithTag(InputLines[i])
                    => \E j \in 1..Len(lrc.parsed) :
                         /\ lrc.parsed[j].lrcTime = FirstTag(InputLines[i])
                         /\ lrc.parsed[j].text = Trim(AfterFirstTag(InputLines[i]))

====
